---- MODULE Spec2Model ----
(***************************************************************************)
(* The bounded single-producer/single-consumer queue of src/src/spsc.rs.   *)
(* One Sender thread and one Receiver thread run try_send / try_recv and   *)
(* finally drop their handle.  Every load, store and slot access of the    *)
(* source is one step, so the interleavings of the two threads are those   *)
(* of the atomics of the Meta block and of the buffer slots.               *)
(***************************************************************************)
EXTENDS Integers, Sequences, FiniteSets

(* Bounds of the model. *)
MaxCap == 2
MaxSends == 3
MaxVal == 1
UsizeBits == 3

(* usize arithmetic: head and tail are AtomicUsize, updated by wrapping_add *)
(* and compared by wrapping_sub.                                            *)
Modulus == 2 ^ UsizeBits
Caps == 0 .. MaxCap
Values == 0 .. MaxVal

(* MaybeUninit<T>: a slot is uninitialized or holds a value. *)
Uninit == -1

(* Option<T> *)
None == [ tag |-> "None" ]
Some(v) == [ tag |-> "Some", val |-> v ]
(* No call has returned yet on this handle. *)
NoRet == [ tag |-> "NoRet" ]

VARIABLES
    cap,         \* shared.buffer.len()
    head,        \* Meta.head
    tail,        \* Meta.tail
    tx_dropped,  \* Meta.tx_dropped
    rx_dropped,  \* Meta.rx_dropped
    buffer,      \* Shared.buffer
    freed,       \* number of times the Box of the shared region was dropped
    destroyed,   \* element values whose destructor ran when the region was freed
    s_pc, s_el, s_head, s_tail, s_flag, s_ret,   \* Sender thread
    r_pc, r_tail, r_head, r_val, r_flag, r_ret,  \* Receiver thread
    accepted,    \* values try_send took (returned None), in order
    received,    \* values try_recv returned in Some, in order
    hist         \* how the calls made so far were arranged in time

shared == << cap, head, tail, tx_dropped, rx_dropped, buffer, freed, destroyed >>
sender == << s_pc, s_el, s_head, s_tail, s_flag, s_ret >>
receiver == << r_pc, r_tail, r_head, r_val, r_flag, r_ret >>
vars == << shared, sender, receiver, accepted, received, hist >>

WrappingAdd(a, b) == (a + b) % Modulus
WrappingSub(a, b) == (a - b + Modulus) % Modulus

(* buffer[c % buffer.len()]; with buffer.len() == 0 the remainder panics,   *)
(* which the steps that index the buffer model as pc "panicked".           *)
Index(c) == c % cap

(* The full test one value early. *)
IsFull_OneEarly(h, t) == WrappingSub(h, t) = cap - 1

(* The full test as a strict comparison. *)
IsFull_Gt(h, t) == WrappingSub(h, t) > cap

(* try_send: `head.wrapping_sub(tail) == shared.buffer.len()` *)
IsFull(h, t) == WrappingSub(h, t) = cap

(* The empty test as a strict comparison. *)
IsEmpty_Gt(t, h) == t > h

(* try_recv: `tail == head` *)
IsEmpty(t, h) == t = h

(* assume_init on a slot: the value it holds; on an uninitialized slot the *)
(* read is undefined behaviour and may produce any value.                  *)
AssumeInit(slot) == IF slot = Uninit THEN Values ELSE { slot }

(* Dropping Box<Shared<T>>: the buffer is [MaybeUninit<T>], which has no   *)
(* drop glue, so no element destructor runs.                               *)
DropBuffer(buf) == { }

SenderInCall == s_pc \in { "load_head", "load_tail", "branch", "store_head" }
ReceiverInCall == r_pc \in { "load_tail", "load_head", "branch", "read", "clear" }

(* new(cap) *)
Init ==
    /\ cap \in Caps
    /\ head = 0
    /\ tail = 0
    /\ tx_dropped = FALSE
    /\ rx_dropped = FALSE
    /\ buffer = [ i \in 0 .. cap - 1 |-> Uninit ]
    /\ freed = 0
    /\ destroyed = { }
    /\ s_pc = "idle" /\ s_el = 0 /\ s_head = 0 /\ s_tail = 0
    /\ s_flag = FALSE /\ s_ret = NoRet
    /\ r_pc = "idle" /\ r_tail = 0 /\ r_head = 0 /\ r_val = 0
    /\ r_flag = FALSE /\ r_ret = NoRet
    /\ accepted = << >>
    /\ received = << >>
    /\ hist = "sends_only"


(* The arrangement in time of the calls so far, as the next call starts:   *)
(* "sends_only" (no try_recv called yet), "sends_then_recvs" (every        *)
(* try_send returned before the first try_recv was called and none was     *)
(* called since), "alternating" (calls of both kinds, never two at once),  *)
(* "overlapping" (a call started while the peer's call was in progress).   *)
HistAfterSendCall ==
    IF ReceiverInCall \/ hist = "overlapping" THEN "overlapping"
    ELSE IF hist = "sends_only" THEN "sends_only"
    ELSE "alternating"

HistAfterRecvCall ==
    IF SenderInCall \/ hist = "overlapping" THEN "overlapping"
    ELSE IF hist = "sends_only" THEN "sends_then_recvs"
    ELSE hist

(* ------------------------------ Sender ------------------------------- *)

(* The producer calls try_send(el); a value handed back is offered again. *)
SendCall ==
    /\ s_pc = "idle"
    /\ Len(accepted) < MaxSends
    /\ \E v \in Values :
          /\ (s_ret.tag = "Some" => v = s_ret.val)
          /\ s_el' = v
    /\ s_pc' = "load_head"
    /\ hist' = HistAfterSendCall
    /\ UNCHANGED << shared, s_head, s_tail, s_flag, s_ret, receiver,
                    accepted, received >>

(* let head = shared.meta.head.load(Relaxed) *)
SendLoadHead ==
    /\ s_pc = "load_head"
    /\ s_head' = head
    /\ s_pc' = "load_tail"
    /\ UNCHANGED << shared, s_el, s_tail, s_flag, s_ret, receiver,
                    accepted, received, hist >>

(* The second load reading head again instead of tail. *)
SendLoadTail_LoadsHead ==
    /\ s_pc = "load_tail"
    /\ s_tail' = head
    /\ s_pc' = "branch"
    /\ UNCHANGED << shared, s_el, s_head, s_flag, s_ret, receiver,
                    accepted, received, hist >>

(* let tail = shared.meta.tail.load(Acquire) *)
SendLoadTail ==
    /\ s_pc = "load_tail"
    /\ s_tail' = tail
    /\ s_pc' = "branch"
    /\ UNCHANGED << shared, s_el, s_head, s_flag, s_ret, receiver,
                    accepted, received, hist >>

(* A full queue waited for: the loads repeated until there is room. *)
SendReject_Retry ==
    /\ s_pc = "branch"
    /\ IsFull(s_head, s_tail)
    /\ s_pc' = "load_head"
    /\ UNCHANGED << shared, s_el, s_head, s_tail, s_flag, s_ret, receiver,
                    accepted, received, hist >>

(* if head.wrapping_sub(tail) == shared.buffer.len() { Some(el) } *)
SendReject ==
    /\ s_pc = "branch"
    /\ IsFull(s_head, s_tail)
    /\ s_ret' = Some(s_el)
    /\ s_pc' = "idle"
    /\ s_el' = 0 /\ s_head' = 0 /\ s_tail' = 0
    /\ UNCHANGED << shared, s_flag, receiver, accepted, received, hist >>

(* The value written one slot further than the slot of head. *)
SendWrite_NextSlot ==
    /\ s_pc = "branch"
    /\ ~ IsFull(s_head, s_tail)
    /\ IF cap = 0
          THEN s_pc' = "panicked" /\ buffer' = buffer
          ELSE /\ buffer' = [ buffer EXCEPT ![Index(s_head + 1)] = s_el ]
               /\ s_pc' = "store_head"
    /\ UNCHANGED << cap, head, tail, tx_dropped, rx_dropped, freed, destroyed,
                    s_el, s_head, s_tail, s_flag, s_ret, receiver,
                    accepted, received, hist >>

(* else { shared.buffer[head % shared.buffer.len()].write(el); *)
SendWrite ==
    /\ s_pc = "branch"
    /\ ~ IsFull(s_head, s_tail)
    /\ IF cap = 0
          THEN s_pc' = "panicked" /\ buffer' = buffer
          ELSE /\ buffer' = [ buffer EXCEPT ![Index(s_head)] = s_el ]
               /\ s_pc' = "store_head"
    /\ UNCHANGED << cap, head, tail, tx_dropped, rx_dropped, freed, destroyed,
                    s_el, s_head, s_tail, s_flag, s_ret, receiver,
                    accepted, received, hist >>

(* shared.meta.head.store(head.wrapping_add(1), Release); None } *)
SendStoreHead ==
    /\ s_pc = "store_head"
    /\ head' = WrappingAdd(s_head, 1)
    /\ s_ret' = None
    /\ accepted' = Append(accepted, s_el)
    /\ s_pc' = "idle"
    /\ s_el' = 0 /\ s_head' = 0 /\ s_tail' = 0
    /\ UNCHANGED << cap, tail, tx_dropped, rx_dropped, buffer, freed,
                    destroyed, s_flag, receiver, received, hist >>

(* The test of the peer's flag negated. *)
SendDropLoad_Inverted ==
    /\ s_pc = "idle"
    /\ s_flag' = ~ rx_dropped
    /\ s_pc' = "drop_branch"
    /\ UNCHANGED << shared, s_el, s_head, s_tail, s_ret, receiver,
                    accepted, received, hist >>

(* Drop for Sender: if shared.meta.rx_dropped.load(Acquire) *)
SendDropLoad ==
    /\ s_pc = "idle"
    /\ s_flag' = rx_dropped
    /\ s_pc' = "drop_branch"
    /\ UNCHANGED << shared, s_el, s_head, s_tail, s_ret, receiver,
                    accepted, received, hist >>

(* { drop(unsafe { Box::from_non_null(self.ptr) }); } *)
SendDropFree ==
    /\ s_pc = "drop_branch"
    /\ s_flag
    /\ freed' = freed + 1
    /\ destroyed' = destroyed \cup DropBuffer(buffer)
    /\ s_pc' = "done"
    /\ UNCHANGED << cap, head, tail, tx_dropped, rx_dropped, buffer,
                    s_el, s_head, s_tail, s_flag, s_ret, receiver,
                    accepted, received, hist >>

(* The mark discarding the values still buffered. *)
SendDropMark_Discards ==
    /\ s_pc = "drop_branch"
    /\ ~ s_flag
    /\ tx_dropped' = TRUE
    /\ head' = tail
    /\ buffer' = [ i \in DOMAIN buffer |-> Uninit ]
    /\ s_pc' = "done"
    /\ UNCHANGED << cap, tail, rx_dropped, freed, destroyed,
                    s_el, s_head, s_tail, s_flag, s_ret, receiver,
                    accepted, received, hist >>

(* The mark branch falling through to the free. *)
SendDropMark_AndFree ==
    /\ s_pc = "drop_branch"
    /\ ~ s_flag
    /\ tx_dropped' = TRUE
    /\ freed' = freed + 1
    /\ s_pc' = "done"
    /\ UNCHANGED << cap, head, tail, rx_dropped, buffer, destroyed,
                    s_el, s_head, s_tail, s_flag, s_ret, receiver,
                    accepted, received, hist >>

(* else { shared.meta.tx_dropped.store(true, Release); } *)
SendDropMark ==
    /\ s_pc = "drop_branch"
    /\ ~ s_flag
    /\ tx_dropped' = TRUE
    /\ s_pc' = "done"
    /\ UNCHANGED << cap, head, tail, rx_dropped, buffer, freed, destroyed,
                    s_el, s_head, s_tail, s_flag, s_ret, receiver,
                    accepted, received, hist >>

(* ----------------------------- Receiver ------------------------------ *)

(* The consumer calls try_recv(). *)
RecvCall ==
    /\ r_pc = "idle"
    /\ r_pc' = "load_tail"
    /\ hist' = HistAfterRecvCall
    /\ UNCHANGED << shared, sender, r_tail, r_head, r_val, r_flag, r_ret,
                    accepted, received >>

(* let tail = shared.meta.tail.load(Relaxed) *)
RecvLoadTail ==
    /\ r_pc = "load_tail"
    /\ r_tail' = tail
    /\ r_pc' = "load_head"
    /\ UNCHANGED << shared, sender, r_head, r_val, r_flag, r_ret,
                    accepted, received, hist >>

(* let head = shared.meta.head.load(Acquire) *)
RecvLoadHead ==
    /\ r_pc = "load_head"
    /\ r_head' = head
    /\ r_pc' = "branch"
    /\ UNCHANGED << shared, sender, r_tail, r_val, r_flag, r_ret,
                    accepted, received, hist >>

(* The tail published before the empty test, so also when returning None. *)
RecvEmpty_Advances ==
    /\ r_pc = "branch"
    /\ IsEmpty(r_tail, r_head)
    /\ tail' = WrappingAdd(r_tail, 1)
    /\ r_ret' = None
    /\ r_pc' = "idle"
    /\ r_tail' = 0 /\ r_head' = 0
    /\ UNCHANGED << cap, head, tx_dropped, rx_dropped, buffer, freed,
                    destroyed, sender, r_val, r_flag, accepted, received,
                    hist >>

(* if tail == head { None } *)
RecvEmpty ==
    /\ r_pc = "branch"
    /\ IsEmpty(r_tail, r_head)
    /\ r_ret' = None
    /\ r_pc' = "idle"
    /\ r_tail' = 0 /\ r_head' = 0
    /\ UNCHANGED << shared, sender, r_val, r_flag, accepted, received, hist >>

(* else { shared.meta.tail.store(tail.wrapping_add(1), Release); *)
RecvStoreTail ==
    /\ r_pc = "branch"
    /\ ~ IsEmpty(r_tail, r_head)
    /\ tail' = WrappingAdd(r_tail, 1)
    /\ r_pc' = "read"
    /\ UNCHANGED << cap, head, tx_dropped, rx_dropped, buffer, freed,
                    destroyed, sender, r_tail, r_head, r_val, r_flag, r_ret,
                    accepted, received, hist >>

(* The read taking the newest slot, the one before head. *)
RecvRead_AtHead ==
    /\ r_pc = "read"
    /\ IF cap = 0
          THEN r_pc' = "panicked" /\ r_val' = r_val
          ELSE /\ \E v \in AssumeInit(buffer[Index(r_head + Modulus - 1)]) :
                     r_val' = v
               /\ r_pc' = "clear"
    /\ UNCHANGED << shared, sender, r_tail, r_head, r_flag, r_ret,
                    accepted, received, hist >>

(* std::mem::replace(&mut shared.buffer[tail % len], ..): read of the slot, *)
(* whose contents .assume_init() then takes as a value.                     *)
RecvRead ==
    /\ r_pc = "read"
    /\ IF cap = 0
          THEN r_pc' = "panicked" /\ r_val' = r_val
          ELSE /\ \E v \in AssumeInit(buffer[Index(r_tail)]) : r_val' = v
               /\ r_pc' = "clear"
    /\ UNCHANGED << shared, sender, r_tail, r_head, r_flag, r_ret,
                    accepted, received, hist >>

(* The value copied out of the slot (ptr::read) without the slot being   *)
(* left uninitialized.                                                     *)
RecvClear_KeepsSlot ==
    /\ r_pc = "clear"
    /\ r_ret' = Some(r_val)
    /\ received' = Append(received, r_val)
    /\ r_pc' = "idle"
    /\ r_tail' = 0 /\ r_head' = 0 /\ r_val' = 0
    /\ UNCHANGED << shared, sender, r_flag, accepted, hist >>

(* std::mem::replace: write of MaybeUninit::uninit() into the slot; then   *)
(* Some(value) is returned.                                                *)
RecvClear ==
    /\ r_pc = "clear"
    /\ buffer' = [ buffer EXCEPT ![Index(r_tail)] = Uninit ]
    /\ r_ret' = Some(r_val)
    /\ received' = Append(received, r_val)
    /\ r_pc' = "idle"
    /\ r_tail' = 0 /\ r_head' = 0 /\ r_val' = 0
    /\ UNCHANGED << cap, head, tail, tx_dropped, rx_dropped, freed, destroyed,
                    sender, r_flag, accepted, hist >>

(* The test of the peer's flag negated. *)
RecvDropLoad_Inverted ==
    /\ r_pc = "idle"
    /\ r_flag' = ~ tx_dropped
    /\ r_pc' = "drop_branch"
    /\ UNCHANGED << shared, sender, r_tail, r_head, r_val, r_ret,
                    accepted, received, hist >>

(* Drop for Receiver: if shared.meta.tx_dropped.load(Acquire) *)
RecvDropLoad ==
    /\ r_pc = "idle"
    /\ r_flag' = tx_dropped
    /\ r_pc' = "drop_branch"
    /\ UNCHANGED << shared, sender, r_tail, r_head, r_val, r_ret,
                    accepted, received, hist >>

(* { drop(unsafe { Box::from_non_null(self.ptr) }); } *)
RecvDropFree ==
    /\ r_pc = "drop_branch"
    /\ r_flag
    /\ freed' = freed + 1
    /\ destroyed' = destroyed \cup DropBuffer(buffer)
    /\ r_pc' = "done"
    /\ UNCHANGED << cap, head, tail, tx_dropped, rx_dropped, buffer,
                    sender, r_tail, r_head, r_val, r_flag, r_ret,
                    accepted, received, hist >>

(* The Receiver's mark storing the Sender's flag. *)
RecvDropMark_TxFlag ==
    /\ r_pc = "drop_branch"
    /\ ~ r_flag
    /\ tx_dropped' = TRUE
    /\ r_pc' = "done"
    /\ UNCHANGED << cap, head, tail, rx_dropped, buffer, freed, destroyed,
                    sender, r_tail, r_head, r_val, r_flag, r_ret,
                    accepted, received, hist >>

(* else { shared.meta.rx_dropped.store(true, Release); } *)
RecvDropMark ==
    /\ r_pc = "drop_branch"
    /\ ~ r_flag
    /\ rx_dropped' = TRUE
    /\ r_pc' = "done"
    /\ UNCHANGED << cap, head, tail, tx_dropped, buffer, freed, destroyed,
                    sender, r_tail, r_head, r_val, r_flag, r_ret,
                    accepted, received, hist >>

Next ==
    \/ SendCall
    \/ SendLoadHead
    \/ SendLoadTail
    \/ SendReject
    \/ SendWrite
    \/ SendStoreHead
    \/ SendDropLoad
    \/ SendDropFree
    \/ SendDropMark
    \/ RecvCall
    \/ RecvLoadTail
    \/ RecvLoadHead
    \/ RecvEmpty
    \/ RecvStoreTail
    \/ RecvRead
    \/ RecvClear
    \/ RecvDropLoad
    \/ RecvDropFree
    \/ RecvDropMark

(* The steps of a try_send call and of a try_recv call. *)
SendOp ==
    \/ SendCall
    \/ SendLoadHead
    \/ SendLoadTail
    \/ SendReject
    \/ SendWrite
    \/ SendStoreHead

RecvOp ==
    \/ RecvCall
    \/ RecvLoadTail
    \/ RecvLoadHead
    \/ RecvEmpty
    \/ RecvStoreTail
    \/ RecvRead
    \/ RecvClear

Spec == Init /\ [][Next]_vars


(* A producer and a consumer that keep their handles and keep polling:     *)
(* neither drop runs, and both threads keep being scheduled, so a thread   *)
(* that can take a step of a call, or start its next call, eventually does.*)
NextLive == SendOp \/ RecvOp

SpecLive == Init /\ [][NextLive]_vars /\ WF_vars(SendOp) /\ WF_vars(RecvOp)

(* A queue whose cursors are about to wrap: the state after WrapStart      *)
(* values were sent and received one by one on a queue of new(cap), the    *)
(* last try_send having returned None and the last try_recv Some(v).       *)
(* accepted and received record the values from this state on.             *)
WrapStart == Modulus - 2
WrapCaps == 1 .. MaxCap + 1

InitWrap ==
    /\ cap \in WrapCaps
    /\ head = WrapStart
    /\ tail = WrapStart
    /\ tx_dropped = FALSE
    /\ rx_dropped = FALSE
    /\ buffer = [ i \in 0 .. cap - 1 |-> Uninit ]
    /\ freed = 0
    /\ destroyed = { }
    /\ s_pc = "idle" /\ s_el = 0 /\ s_head = 0 /\ s_tail = 0
    /\ s_flag = FALSE /\ s_ret = None
    /\ r_pc = "idle" /\ r_tail = 0 /\ r_head = 0 /\ r_val = 0
    /\ r_flag = FALSE /\ r_ret \in { Some(v) : v \in Values }
    /\ accepted = << >>
    /\ received = << >>
    /\ hist = "alternating"

SpecWrap == InitWrap /\ [][Next]_vars

(* ------------------------------ Claims ------------------------------- *)

IsPrefix(a, b) ==
    /\ Len(a) <= Len(b)
    /\ \A i \in 1 .. Len(a) : a[i] = b[i]

Live(j) == buffer[j] # Uninit
InRange(j) == \E i \in tail .. head - 1 : i % cap = j
Quiescent == ~ SenderInCall /\ ~ ReceiverInCall

(* C1: with the producer and the consumer interleaved at the level of the  *)
(* single loads, stores and slot accesses, the values try_recv returns are *)
(* the values try_send accepted, in the same order, none twice, none       *)
(* missing, for every capacity >= 1.                                       *)
C1_ConcurrentFifo ==
    cap >= 1 => IsPrefix(received, accepted)

(* C2: the values accepted by try_send before any try_recv is called are   *)
(* returned by the following try_recv calls in the order of acceptance,    *)
(* and try_recv returns None only once all of them have been returned.     *)
C2_OrderPreservation ==
    hist \in { "sends_only", "sends_then_recvs" } =>
        /\ IsPrefix(received, accepted)
        /\ (r_ret = None /\ r_pc = "idle" => received = accepted)
        /\ (r_pc \in { "read", "clear" } => Len(received) < Len(accepted))

C2_Witness ==
    /\ hist = "sends_then_recvs"
    /\ Len(accepted) >= 2
    /\ accepted[1] # accepted[2]
    /\ received = accepted
    /\ r_ret = None
    /\ r_pc = "idle"

(* C3: once both the Sender drop and the Receiver drop have completed,     *)
(* exactly one free of the shared region has occurred, in every order and  *)
(* interleaving of the two drops.                                          *)
C3_ExactlyOneFree ==
    s_pc = "done" /\ r_pc = "done" => freed = 1

(* C4: the shared region is freed at most once: the two drops never both   *)
(* take the free branch.                                                   *)
C4_NoDoubleFree ==
    /\ freed <= 1
    /\ ~ (s_pc = "done" /\ r_pc = "done" /\ s_flag /\ r_flag)

C4_Witness ==
    /\ s_pc = "done"
    /\ r_pc = "done"
    /\ freed = 1


(* C5: while only try_send has been called, at most `capacity` values are  *)
(* accepted and the slots hold them; a try_send is rejected only once      *)
(* `capacity` values are in the queue.  Whenever try_send decides, it      *)
(* rejects exactly when head - tail == capacity, and a rejecting call      *)
(* returns Some(v) with the v it was given and changes neither head, tail, *)
(* any slot nor the values the queue holds.                                *)
C5_CapacityBound ==
    /\ [](hist = "sends_only" =>
            /\ Len(accepted) <= cap
            /\ head = Len(accepted) /\ tail = 0
            /\ \A i \in 1 .. Len(accepted) : buffer[Index(i - 1)] = accepted[i]
            /\ (s_ret.tag = "Some" => Len(accepted) = cap)
            /\ (s_pc = "store_head" => Len(accepted) < cap))
    /\ [](s_pc = "branch" =>
            /\ s_head = head
            /\ (hist # "overlapping" => s_tail = tail))
    /\ [][s_pc = "branch" /\ s_pc' # "branch" =>
            /\ (s_pc' = "idle") <=> (WrappingSub(head, s_tail) = cap)
            /\ s_pc' = "idle" =>
                  /\ s_ret' = Some(s_el)
                  /\ UNCHANGED << head, tail, buffer, accepted >>]_vars

C5_Witness ==
    /\ hist = "sends_only"
    /\ cap = MaxCap
    /\ Len(accepted) = cap
    /\ s_pc = "idle"
    /\ s_ret.tag = "Some"

(* C6: try_recv on a newly constructed queue returns None, and whenever    *)
(* try_recv decides it returns None exactly when tail == head, leaving     *)
(* head, tail, every slot and the received values unchanged.               *)
C6_EmptyResult ==
    /\ [](head = 0 /\ tail = 0 =>
            /\ r_ret \in { NoRet, None }
            /\ r_pc \notin { "read", "clear" })
    /\ [](r_pc = "branch" =>
            /\ r_tail = tail
            /\ (hist # "overlapping" => r_head = head))
    /\ [][r_pc = "branch" /\ r_pc' # "branch" =>
            /\ (r_pc' = "idle") <=> (tail = r_head)
            /\ r_pc' = "idle" =>
                  /\ r_ret' = None
                  /\ UNCHANGED << head, tail, buffer, received >>]_vars

C6_Witness ==
    /\ Len(accepted) >= 1
    /\ received = accepted
    /\ hist = "alternating"
    /\ r_pc = "idle"
    /\ r_ret = None

(* C7: when the region is freed every value still buffered in it has been  *)
(* destroyed.                                                              *)
C7_DrainBeforeFree ==
    freed >= 1 => \A j \in DOMAIN buffer : Live(j) => j \in destroyed

(* C8: 0 <= head - tail <= capacity in every reachable state of every      *)
(* interleaving of try_send and try_recv.                                  *)
C8_CursorBounds ==
    /\ tail <= head
    /\ head - tail <= cap

C8_Witness ==
    /\ hist = "overlapping"
    /\ cap = MaxCap
    /\ tail >= 1
    /\ head - tail = cap

C10_CapacityZero ==
    /\ [](cap = 0 =>
            /\ head = 0 /\ tail = 0
            /\ s_ret.tag # "None" /\ r_ret.tag # "Some"
            /\ s_pc \notin { "store_head", "panicked" }
            /\ r_pc \notin { "read", "clear", "panicked" }
            /\ accepted = << >> /\ received = << >>)
    /\ [][cap = 0 =>
            /\ (s_pc = "branch" /\ s_pc' # "branch" => s_ret' = Some(s_el))
            /\ (r_pc = "branch" /\ r_pc' # "branch" => r_ret' = None)]_vars

C10_Witness ==
    /\ cap = 0
    /\ hist = "overlapping"
    /\ s_ret.tag = "Some"
    /\ r_ret = None
    /\ s_pc = "idle"
    /\ r_pc = "idle"

(* C11: with calls that do not overlap and capacity >= 1, a try_send on an *)
(* empty queue is accepted, the try_recv that follows takes a value, and   *)
(* the value it returns is exactly the one sent, after which the queue is  *)
(* empty again: head = tail and no slot holds a value.                     *)
C11_RoundTrip ==
    cap >= 1 /\ hist # "overlapping" =>
        /\ (s_pc = "branch" /\ head = tail => ~ IsFull(s_head, s_tail))
        /\ (r_pc = "branch" /\ Len(received) < Len(accepted) =>
                ~ IsEmpty(r_tail, r_head))
        /\ (r_pc = "clear" => r_val = accepted[Len(received) + 1])
        /\ (r_pc = "idle" /\ r_ret.tag = "Some" /\ Len(received) = Len(accepted) =>
                /\ r_ret.val = accepted[Len(accepted)]
                /\ head = tail
                /\ (~ SenderInCall => \A j \in DOMAIN buffer : ~ Live(j)))

C11_Witness ==
    /\ cap = MaxCap
    /\ hist = "alternating"
    /\ Quiescent
    /\ Len(accepted) = 2
    /\ accepted[1] # accepted[2]
    /\ received = accepted
    /\ s_ret = None
    /\ r_ret = Some(accepted[2])
    /\ head = tail

(* C12 as stated: when the shared region has been freed, tx_dropped and    *)
(* rx_dropped are both true.                                               *)
C12_BothFlagsAtFree ==
    freed >= 1 => tx_dropped /\ rx_dropped

(* C12 as amended: when the shared region is freed, the flag of the peer   *)
(* of the freeing handle is true and the freeing handle's own flag is      *)
(* false, and stays false: the drop that frees never stores its flag.      *)
C12_PeerFlagAtFree ==
    /\ (s_pc = "done" /\ s_flag => freed >= 1 /\ rx_dropped /\ ~ tx_dropped)
    /\ (r_pc = "done" /\ r_flag => freed >= 1 /\ tx_dropped /\ ~ rx_dropped)
    /\ (freed >= 1 => (s_pc = "done" /\ s_flag) \/ (r_pc = "done" /\ r_flag))

C12_Witness ==
    /\ freed = 1
    /\ r_pc = "done"
    /\ r_flag
    /\ tx_dropped
    /\ ~ rx_dropped

(* The largest number of its own steps a call at position pc still takes   *)
(* before it returns.                                                      *)
SendStepsLeft(pc) ==
    CASE pc = "load_head" -> 4
      [] pc = "load_tail" -> 3
      [] pc = "branch" -> 2
      [] pc = "store_head" -> 1
      [] OTHER -> 0

RecvStepsLeft(pc) ==
    CASE pc = "load_tail" -> 5
      [] pc = "load_head" -> 4
      [] pc = "branch" -> 3
      [] pc = "read" -> 2
      [] pc = "clear" -> 1
      [] OTHER -> 0

(* C13: a try_send or try_recv in progress always has a step of its own to *)
(* take, whatever the state the other thread is in, and each of its steps  *)
(* brings it strictly closer to its return: a call returns after at most 5 *)
(* (try_send) or 6 (try_recv) steps of its own, with no loop and no wait.  *)
C13_WaitFree ==
    /\ [](SenderInCall => ENABLED SendOp)
    /\ [](ReceiverInCall => ENABLED RecvOp)
    /\ [][SenderInCall /\ sender' # sender =>
            SendStepsLeft(s_pc') < SendStepsLeft(s_pc)]_vars
    /\ [][ReceiverInCall /\ receiver' # receiver =>
            RecvStepsLeft(r_pc') < RecvStepsLeft(r_pc)]_vars

C13_Witness ==
    /\ cap >= 1
    /\ s_pc = "branch"
    /\ IsFull(s_head, s_tail)
    /\ r_pc = "read"

(* C14: a successful try_recv moves the value out of slot tail mod         *)
(* capacity before it publishes tail + 1, so the producer never writes a   *)
(* slot the consumer has still to move out, and the value try_recv returns *)
(* for a counter is the value try_send accepted for it.                    *)
C14_ReceiveOrdering ==
    cap >= 1 =>
        /\ (r_pc \in { "read", "clear" } => tail = r_tail)
        /\ ~ (r_pc \in { "read", "clear" } /\ s_pc = "store_head"
                /\ Index(s_head) = Index(r_tail))
        /\ (r_pc = "clear" => r_val = accepted[Len(received) + 1])

(* C15: a successful try_send writes slot head mod capacity before it      *)
(* publishes head + 1, so the slot try_recv reads for a counter holds the  *)
(* value written for that counter: never an uninitialized slot and never   *)
(* the value of another counter.                                           *)
C15_SendOrdering ==
    cap >= 1 =>
        /\ (s_pc = "store_head" => head = s_head)
        /\ (r_pc = "read" => Live(Index(r_tail)))
        /\ (r_pc = "read" => buffer[Index(r_tail)] = accepted[Len(received) + 1])

(* C16: head changes only in a step of the Sender's try_send and tail only *)
(* in a step of the Receiver's try_recv, each by one; tx_dropped is        *)
(* written only by the Sender drop and rx_dropped only by the Receiver     *)
(* drop, only from false to true; no drop step changes head or tail.       *)
C16_SingleWriter ==
    [][/\ head' # head =>
            /\ s_pc = "store_head" /\ s_pc' = "idle"
            /\ head' = WrappingAdd(head, 1)
            /\ receiver' = receiver
       /\ tail' # tail =>
            /\ r_pc = "branch" /\ r_pc' = "read"
            /\ tail' = WrappingAdd(tail, 1)
            /\ sender' = sender
       /\ tx_dropped' # tx_dropped =>
            /\ ~ tx_dropped /\ tx_dropped'
            /\ s_pc = "drop_branch" /\ s_pc' = "done"
            /\ receiver' = receiver
       /\ rx_dropped' # rx_dropped =>
            /\ ~ rx_dropped /\ rx_dropped'
            /\ r_pc = "drop_branch" /\ r_pc' = "done"
            /\ sender' = sender
       /\ s_pc \in { "drop_branch", "done" } => head' = head
       /\ r_pc \in { "drop_branch", "done" } => tail' = tail]_vars

C16_Witness ==
    /\ head >= 2
    /\ tail >= 1
    /\ tx_dropped
    /\ rx_dropped

(* The counters of the values in the queue, oldest first. *)
QueuedCounters ==
    { WrappingAdd(tail, k) : k \in 0 .. WrappingSub(head, tail) - 1 }

(* C17: across the wrap of a cursor from 2^w - 1 to 0 the queue keeps its  *)
(* capacity bound and its FIFO order, for every capacity: two values in    *)
(* the queue at the same time never map to the same slot index.            *)
C17_Wraparound ==
    hist # "overlapping" =>
        /\ WrappingSub(head, tail) <= cap
        /\ \A a, b \in QueuedCounters : a # b => Index(a) # Index(b)
        /\ IsPrefix(received, accepted)

(* The positions at which a thread's next step reads or writes the control *)
(* block or a slot: inside a call, and in a drop before its last step.     *)
SenderWillAccess == SenderInCall \/ s_pc = "drop_branch"
ReceiverWillAccess == ReceiverInCall \/ r_pc = "drop_branch"

(* C18: once the shared region has been freed no step reads or writes it:  *)
(* both handles have finished their drop, no call is in progress and none  *)
(* can start, in every interleaving of the calls and the two drops.        *)
C18_NoUseAfterFree ==
    freed >= 1 =>
        /\ s_pc = "done"
        /\ r_pc = "done"
        /\ ~ SenderWillAccess
        /\ ~ ReceiverWillAccess
        /\ ~ ENABLED Next

C18_Witness ==
    /\ freed = 1
    /\ hist = "overlapping"
    /\ s_flag
    /\ Len(received) >= 1
    /\ head > tail

C20_Progress ==
    /\ (cap >= 1 /\ s_pc = "idle" /\ s_ret.tag = "Some") ~> (s_ret = None)
    /\ (cap >= 1 /\ r_pc = "idle" /\ r_ret = None)
          ~> (\/ r_ret.tag = "Some"
              \/ (Len(accepted) = MaxSends /\ head = tail))
    /\ []<>(cap = 0 \/ ~ (s_ret.tag = "Some" /\ r_ret = None))

C20_Witness ==
    /\ cap >= 1
    /\ s_pc = "idle"
    /\ s_ret.tag = "Some"
    /\ r_pc = "idle"
    /\ r_ret.tag = "Some"
    /\ head - tail < cap

====
